---- MODULE Spec2Model ----
(***************************************************************************)
(* Model of tracyfy's Tauri back end: src-tauri/src/git_ops.rs (commit     *)
(* writer, path history resolver, blob reader) and the two mutating        *)
(* commands of src-tauri/src/file_ops.rs.                                  *)
(*                                                                         *)
(* The object store is modelled by what git2/libgit2 does for the calls    *)
(* the source makes: a commit is a record of parents, tree, time and       *)
(* message, a tree maps the paths present in it to blob ids, a blob id     *)
(* stands for its content (same id <=> same content).  Objects are         *)
(* content-addressed: equal commits are one commit object, equal trees are *)
(* one tree object.  The author is the same in every commit of the         *)
(* application and is left out of the records.                             *)
(***************************************************************************)
EXTENDS Integers, Sequences, FiniteSets, TLC

VARIABLES
    repoExists,   \* Repository::open(repo_path) succeeds
    worktree,     \* working directory: path -> content, for the files that exist
    index,        \* the on-disk index (.git/index): path -> staged blob
    commits,      \* commit objects in the store, referenced or not; the position is the OID
    head,         \* the commit HEAD resolves to, NoHead while HEAD is unborn
    lostCommits,  \* OIDs whose commit object cannot be read from the store
    lostTrees,    \* tree objects that cannot be read from the store
    result        \* what the last command returned

vars == <<repoExists, worktree, index, commits, head, lostCommits, lostTrees, result>>

(***************************************************************************)
(* Bounds of the model.                                                    *)
(***************************************************************************)
MaxCommits == 2     \* commit objects the application writes (Spec)
MaxGraph == 3       \* commits of a repository written by other tools
MaxTime == 2        \* distinct commit timestamps in such a repository
MaxParents == 2     \* parents of one commit in such a repository

\* Paths: only WritePaths are ever written, so the other path is one that no
\* tree contains (a filter git_log is called with in SpecFilter).
Files == {"r1.md", "r2.md"}
WritePaths == {"r1.md"}
Contents == {"A", "B"}
Times == 1..MaxTime

\* What the commands of the application are given and read in Spec: the commit
\* message, and the second the clock shows when a commit is made (two commits
\* may fall into one second, and the clock may be set back).
Messages == {"msg"}
ClockValues == {1, 2}

NoHead == 0

\* oid.to_string() and Oid::from_str(): a hash string is either the hex form of
\* an OID or a string that is not hexadecimal
to_string(oid) == [hex |-> TRUE, oid |-> oid]
BadHex == [hex |-> FALSE, oid |-> NoHead]

\* Option<String>: None is <<>>, Some(p) is <<p>>
NoneOpt == <<>>
Some(p) == <<p>>
IsSome(o) == o # <<>>

\* Result<T, String>
Ok(v) == [ok |-> TRUE, err |-> "", val |-> v]
Err(e) == [ok |-> FALSE, err |-> e, val |-> <<>>]

\* every tree / working directory / index
Trees == UNION {[D -> Contents] : D \in SUBSET WritePaths}
EmptyTree == CHOOSE t \in Trees : DOMAIN t = {}

Oids == DOMAIN commits

\* repo.find_commit(oid)
find_commit_ok(oid) == oid \in Oids /\ oid \notin lostCommits

\* commit.tree()
tree(oid) == commits[oid].tree
tree_ok(oid) == tree(oid) \notin lostTrees

\* tree.get_path(path).is_ok()
present(T, P) == P \in DOMAIN T

\* entry.id()
entry_id(T, P) == T[P]

(***************************************************************************)
(* The revision walk (git_log, lines 93-102).  The source takes the        *)
(* walker's default sorting, under which libgit2 keeps the pending commits *)
(* ordered by commit time, newest first, and inserts the unseen parents of *)
(* each commit it pops.                                                    *)
(***************************************************************************)
CommitTime(c) == commits[c].time

RECURSIVE insert_by_date(_, _)
insert_by_date(item, list) ==
    IF list = <<>> THEN <<item>>
    ELSE IF CommitTime(Head(list)) < CommitTime(item) THEN <<item>> \o list
    ELSE <<Head(list)>> \o insert_by_date(item, Tail(list))

\* a parent enters the pending list unless the walk has seen it
\* (MarkNoSeen: a walker that forgets what it has seen)
MarkNoSeen(p, seen) == FALSE
MarkSeen(p, seen) == p \in seen

RECURSIVE add_parents_to_list(_, _, _)
add_parents_to_list(ps, list, seen) ==
    IF ps = <<>> THEN [ok |-> TRUE, list |-> list, seen |-> seen]
    ELSE LET p == Head(ps) IN
         IF ~find_commit_ok(p) THEN [ok |-> FALSE, list |-> list, seen |-> seen]
         ELSE IF MarkSeen(p, seen) THEN add_parents_to_list(Tail(ps), list, seen)
         ELSE add_parents_to_list(Tail(ps), insert_by_date(p, list), seen \cup {p})

(***************************************************************************)
(* git_log, lines 107-157: did the commit change the path?                 *)
(***************************************************************************)
\* lines 139-147: both present, compare the entry ids
\* (SameEntryAlways: a comparison that never reports a content change)
SameEntryAlways(ct, pt, path) == FALSE
entries_differ(ct, pt, path) == entry_id(ct, path) # entry_id(pt, path)

\* the parents the loop of line 125 goes through
\* (FirstParentOnly: a loop that stops after the first parent)
FirstParentOnly(ps) == IF ps = <<>> THEN ps ELSE <<Head(ps)>>
parents_checked(ps) == ps

RECURSIVE parent_loop(_, _, _)
parent_loop(c, ps, path) ==
    IF ps = <<>> THEN FALSE
    ELSE LET p == Head(ps) IN
         IF ~(find_commit_ok(p) /\ tree_ok(p))
         THEN parent_loop(c, Tail(ps), path)          \* `if let Ok(..)` not taken
         ELSE LET file_in_commit == present(tree(c), path)
                  file_in_parent == present(tree(p), path)
              IN IF file_in_commit # file_in_parent THEN TRUE
                 ELSE IF file_in_commit /\ file_in_parent
                         /\ entries_differ(tree(c), tree(p), path) THEN TRUE
                 ELSE parent_loop(c, Tail(ps), path)

file_changed(c, path) ==
    IF Len(commits[c].parents) = 0
    THEN present(tree(c), path)
    ELSE parent_loop(c, parents_checked(commits[c].parents), path)

\* lines 159-164
CommitInfo(c) ==
    [hash |-> to_string(c), message |-> commits[c].message,
     timestamp |-> CommitTime(c)]

\* One turn of `for oid in revwalk` (lines 101-165) for the commit c the walker
\* yields; nxt is the walker's state once it has queued the parents of c.
RECURSIVE log_loop(_, _, _, _)
loop_body(c, nxt, file_path, acc) ==
    IF ~nxt.ok THEN Err("Failed to get OID")
    ELSE IF ~find_commit_ok(c) THEN Err("Failed to find commit")
    ELSE IF IsSome(file_path) /\ ~tree_ok(c) THEN Err("Failed to get commit tree")
    ELSE IF IsSome(file_path) /\ ~file_changed(c, file_path[1])
         THEN log_loop(nxt.list, nxt.seen, file_path, acc)
    ELSE log_loop(nxt.list, nxt.seen, file_path, Append(acc, CommitInfo(c)))

\* (the walker's step is bound through a one-element set so that it is
\* computed once per turn)
log_loop(list, seen, file_path, acc) ==
    IF list = <<>> THEN Ok(acc)
    ELSE CHOOSE r \in
            {loop_body(Head(list), nxt, file_path, acc) :
                nxt \in {add_parents_to_list(commits[Head(list)].parents, Tail(list), seen)}} :
            TRUE

\* the value git_log returns in the current state
git_log_value(file_path) ==
    IF ~repoExists THEN Err("Failed to open repository")
    ELSE IF head = NoHead \/ ~find_commit_ok(head) THEN Err("Failed to push HEAD")
    ELSE log_loop(<<head>>, {head}, file_path, <<>>)

\* the value git_checkout_file returns in the current state
git_checkout_value(commit_hash, file_path) ==
    IF ~repoExists THEN Err("Failed to open repository")
    ELSE IF ~commit_hash.hex THEN Err("Invalid commit hash")
    ELSE LET oid == commit_hash.oid IN
         IF ~find_commit_ok(oid) THEN Err("Failed to find commit")
         ELSE IF ~tree_ok(oid) THEN Err("Failed to get tree")
         ELSE IF ~present(tree(oid), file_path) THEN Err("File not found in commit")
         ELSE Ok(entry_id(tree(oid), file_path))

(***************************************************************************)
(* Commands.  Each one records what it returned in `result`.               *)
(***************************************************************************)
Returned(op, path, r) ==
    [op |-> op, path |-> path, hash |-> BadHex,
     ok |-> r.ok, err |-> r.err, val |-> r.val]

\* git_init: Repository::init creates the repository, or reopens an existing one
git_init ==
    /\ repoExists' = TRUE
    /\ result' = Returned("git_init", NoneOpt, Ok(<<>>))
    /\ UNCHANGED <<worktree, index, commits, head, lostCommits, lostTrees>>

\* file_ops.rs write_artifact_file
write_artifact_file(path, content) ==
    /\ worktree' = (path :> content) @@ worktree
    /\ result' = Returned("write_artifact_file", Some(path), Ok(<<>>))
    /\ UNCHANGED <<repoExists, index, commits, head, lostCommits, lostTrees>>

\* file_ops.rs delete_artifact_file
delete_artifact_file(path) ==
    /\ IF path \in DOMAIN worktree
       THEN /\ worktree' = [p \in DOMAIN worktree \ {path} |-> worktree[p]]
            /\ result' = Returned("delete_artifact_file", Some(path), Ok(<<>>))
       ELSE /\ worktree' = worktree
            /\ result' = Returned("delete_artifact_file", Some(path), Err("Failed to delete file"))
    /\ UNCHANGED <<repoExists, index, commits, head, lostCommits, lostTrees>>

\* lines 53-61 / 262-270: the parents of the commit to create
\* (NoParents: a writer that never links to the head)
NoParents(h) == <<>>
parent_commit(h) == IF h = NoHead THEN <<>> ELSE <<h>>

\* lines 37 and 246: what the index holds after staging
\* (StageNothing: an add_path that leaves the index as it was)
StageNothing(idx, wt, file_path) == idx
add_all(idx, wt) == wt
add_path(idx, wt, file_path) == (file_path :> wt[file_path]) @@ idx

\* The fallible store calls of git_commit / git_commit_file, in source order.
\* "none": every call succeeds.  (Signature::now is given a fixed valid name
\* and e-mail, and repo.head() hands back a resolved reference, so neither
\* line 51 nor line 56 returns an error.)  repo.commit(Some("HEAD"), ..)
\* writes the commit object and then moves the reference: "commit" is its
\* failure before the object is written, "update_ref" its failure to move the
\* reference (a stale lock on the branch), with the object written.
CommitFaults ==
    {"none", "index", "add", "write_index", "write_tree", "find_tree",
     "find_parent", "commit", "update_ref"}

\* the faults that strike after index.write() has replaced the on-disk index
AfterIndexWrite ==
    {"write_tree", "find_tree", "find_parent", "commit", "update_ref"}

\* the outcomes in which repo.commit has written the commit object
ObjectWritten == {"none", "update_ref"}

\* The OID is derived from the content of the commit: a commit equal to one
\* that is in the store is that object.
oid_of(rec) ==
    IF \E i \in Oids : commits[i] = rec
    THEN CHOOSE i \in Oids : commits[i] = rec
    ELSE Len(commits) + 1

odb_write(rec) ==
    IF \E i \in Oids : commits[i] = rec THEN commits ELSE Append(commits, rec)

\* the error each failing call is mapped to (map_err, lines 34-82 / 246-291)
commit_error(op, fault) ==
    CASE fault = "index" -> "Failed to get index"
      [] fault = "add" ->
            IF op = "git_commit" THEN "Failed to add files"
            ELSE "Failed to add file to index"
      [] fault = "write_index" -> "Failed to write index"
      [] fault = "write_tree" -> "Failed to write tree"
      [] fault = "find_tree" -> "Failed to find tree"
      [] fault = "find_parent" -> "Failed to find parent commit"
      [] OTHER -> "Failed to create commit"

\* Shared tail of git_commit and git_commit_file (lines 40-84 / 249-293):
\* `staged` is the index after add_all / add_path.  Signature::now() (lines 50
\* and 259) reads the clock; the second it reads is kept where repo.commit
\* writes the commit object.
commit_staged(op, path, message, staged) ==
    \/ \E fault \in CommitFaults \ ObjectWritten :
          /\ fault = "find_parent" => head # NoHead
          /\ index' = IF fault \in AfterIndexWrite THEN staged ELSE index
          /\ result' = Returned(op, path, Err(commit_error(op, fault)))
          /\ UNCHANGED <<repoExists, worktree, commits, head, lostCommits, lostTrees>>
    \/ \E fault \in ObjectWritten, now \in ClockValues :
          LET rec == [parents |-> parent_commit(head), tree |-> staged,
                      time |-> now, message |-> message]
              oid == oid_of(rec)
          IN
          /\ oid \in Oids \/ Len(commits) < MaxCommits
          /\ index' = staged
          /\ commits' = odb_write(rec)
          /\ head' = IF fault = "none" THEN oid ELSE head
          /\ result' = Returned(op, path,
                                IF fault = "none" THEN Ok(to_string(oid))
                                ELSE Err(commit_error(op, fault)))
          /\ UNCHANGED <<repoExists, worktree, lostCommits, lostTrees>>

open_failed(op, path) ==
    /\ ~repoExists
    /\ result' = Returned(op, path, Err("Failed to open repository"))
    /\ UNCHANGED <<repoExists, worktree, index, commits, head, lostCommits, lostTrees>>

\* git_commit (commit_all): add_all(["*"]) stages the whole working directory,
\* removals included
git_commit(message) ==
    \/ open_failed("git_commit", NoneOpt)
    \/ /\ repoExists
       /\ commit_staged("git_commit", NoneOpt, message, add_all(index, worktree))

\* git_commit_file (commit_path): repo.index() (line 242) comes first, then
\* add_path stages one file, which must exist (line 246)
git_commit_file(file_path, message) ==
    \/ open_failed("git_commit_file", Some(file_path))
    \/ /\ repoExists
       /\ file_path \notin DOMAIN worktree
       /\ \E fault \in {"index", "add"} :
             result' = Returned("git_commit_file", Some(file_path),
                                Err(commit_error("git_commit_file", fault)))
       /\ UNCHANGED <<repoExists, worktree, index, commits, head, lostCommits, lostTrees>>
    \/ /\ repoExists
       /\ file_path \in DOMAIN worktree
       /\ commit_staged("git_commit_file", Some(file_path), message,
                        add_path(index, worktree, file_path))

git_log(file_path) ==
    /\ result' = Returned("git_log", file_path, git_log_value(file_path))
    /\ UNCHANGED <<repoExists, worktree, index, commits, head, lostCommits, lostTrees>>

git_checkout_file(commit_hash, file_path) ==
    /\ result' = [Returned("git_checkout_file", Some(file_path),
                           git_checkout_value(commit_hash, file_path))
                  EXCEPT !.hash = commit_hash]
    /\ UNCHANGED <<repoExists, worktree, index, commits, head, lostCommits, lostTrees>>

\* The arguments of the commands in Spec: the path that is written (present
\* or absent in the working directory and in each commit), and every hash the
\* store can hold (in it or not yet) besides a malformed one.
PathFilters == {NoneOpt} \cup {Some(f) : f \in WritePaths}
HashArgs == {to_string(i) : i \in 1..MaxCommits} \cup {BadHex}

(***************************************************************************)
(* Spec: the application driving its own repository.                       *)
(***************************************************************************)
Init ==
    /\ repoExists = FALSE
    /\ worktree = EmptyTree
    /\ index = EmptyTree
    /\ commits = <<>>
    /\ head = NoHead
    /\ lostCommits = {}
    /\ lostTrees = {}
    /\ result = Returned("start", NoneOpt, Ok(<<>>))

Next ==
    \/ git_init
    \/ \E f \in WritePaths, c \in Contents : write_artifact_file(f, c)
    \/ \E f \in WritePaths : delete_artifact_file(f)
    \/ \E m \in Messages : git_commit(m)
    \/ \E f \in WritePaths, m \in Messages : git_commit_file(f, m)
    \/ \E fp \in PathFilters : git_log(fp)
    \/ \E h \in HashArgs, f \in WritePaths : git_checkout_file(h, f)

Spec == Init /\ [][Next]_vars

(***************************************************************************)
(* Repositories written by other tools: any acyclic commit graph, merges   *)
(* and skewed clocks included.  Commits are numbered so that parents come  *)
(* before children; HEAD is the last commit.  Every commit has a message   *)
(* of its own, so that no two of them are the same object.                 *)
(***************************************************************************)
IsInjective(s) == \A i, j \in DOMAIN s : s[i] = s[j] => i = j

ParentSeqs(k) ==
    {s \in UNION {[1..m -> 1..k] : m \in 0..MaxParents} : IsInjective(s)}

RECURSIVE Graphs(_, _, _)
Graphs(n, trees, times) ==
    IF n = 0 THEN {<<>>}
    ELSE {Append(g, [parents |-> ps, tree |-> t, time |-> tm,
                     message |-> ToString(n)]) :
            g \in Graphs(n - 1, trees, times),
            ps \in ParentSeqs(n - 1), t \in trees, tm \in times}

GraphInit(trees, times) ==
    /\ repoExists = TRUE
    /\ worktree = EmptyTree
    /\ index = EmptyTree
    /\ \E n \in 0..MaxGraph :
          /\ commits \in Graphs(n, trees, times)
          /\ head = n
    /\ result = Returned("start", NoneOpt, Ok(<<>>))

\* SpecWalk: the order and the extent of the walk.  Timestamps vary freely,
\* every object is readable.
InitWalk ==
    /\ GraphInit({EmptyTree}, Times)
    /\ lostCommits = {}
    /\ lostTrees = {}

NextWalk == git_log(NoneOpt)

SpecWalk == InitWalk /\ [][NextWalk]_vars

\* the tree objects of the store that can go missing (the store serves the
\* empty tree without reading an object)
StoredTrees == {commits[c].tree : c \in Oids} \ {EmptyTree}

\* SpecFilter: the path filter.  Trees vary freely, and at most one object of
\* the store is unreadable: a commit, or a tree (of one or of several commits).
InitFilter ==
    /\ GraphInit(Trees, {1})
    /\ \E lc \in SUBSET Oids, lt \in SUBSET StoredTrees :
          /\ Cardinality(lc) + Cardinality(lt) <= 1
          /\ lostCommits = lc
          /\ lostTrees = lt

NextFilter == \E f \in Files : git_log(Some(f))

SpecFilter == InitFilter /\ [][NextFilter]_vars

(***************************************************************************)
(* Vocabulary of the properties, stated on the commit graph itself.        *)
(***************************************************************************)
ParentsOf(c) == {commits[c].parents[i] : i \in DOMAIN commits[c].parents}

RECURSIVE AncestorsOf(_)
AncestorsOf(c) == UNION {{p} \cup AncestorsOf(p) : p \in ParentsOf(c)}

Reachable == IF head = NoHead THEN {} ELSE {head} \cup AncestorsOf(head)

\* the OIDs of a returned history, and how often one occurs in it
HashesOf(log) == {log[i].hash.oid : i \in DOMAIN log}
Occurrences(log, c) == Cardinality({i \in DOMAIN log : log[i].hash.oid = c})

IsSuffix(s, t) ==
    /\ Len(s) <= Len(t)
    /\ \A i \in DOMAIN s : s[i] = t[Len(t) - Len(s) + i]

\* the inclusion rule of the specification, section 4.1 step 4
Touched(c, P) ==
    LET T == commits[c].tree
        ps == commits[c].parents
    IN IF ps = <<>> THEN P \in DOMAIN T
       ELSE \E i \in DOMAIN ps :
               LET PT == commits[ps[i]].tree IN
               \/ (P \in DOMAIN T) # (P \in DOMAIN PT)
               \/ P \in DOMAIN T /\ P \in DOMAIN PT /\ T[P] # PT[P]

IsCommitOp(r) == r.op \in {"git_commit", "git_commit_file"}

\* C1: a filtered history that is returned holds exactly the commits reachable
\* from head that the inclusion rule selects: a root commit with the path
\* present, or a commit that differs from at least one parent on the path
\* (presence, or entry id when present in both).  All others are skipped.
C1_FilteredHistory ==
    (result.op = "git_log" /\ IsSome(result.path) /\ result.ok) =>
        \A c \in Oids :
            c \in HashesOf(result.val) <=> (c \in Reachable /\ Touched(c, result.path[1]))

\* C1 witness: added in A, unchanged in B, removed in C; the history is [C, A]
C1_Witness ==
    /\ result.op = "git_log" /\ result.path = Some("r1.md") /\ result.ok
    /\ Len(commits) = 3 /\ head = 3
    /\ commits[1].parents = <<>> /\ commits[2].parents = <<1>> /\ commits[3].parents = <<2>>
    /\ "r1.md" \in DOMAIN commits[1].tree
    /\ commits[2].tree = commits[1].tree
    /\ "r1.md" \notin DOMAIN commits[3].tree
    /\ result.val = <<CommitInfo(3), CommitInfo(1)>>

\* C2: with at least one commit, the unfiltered history is returned and holds
\* every commit reachable from head, no other commit, and each exactly once.
C2_FullHistory ==
    (result.op = "git_log" /\ result.path = NoneOpt /\ head # NoHead) =>
        /\ result.ok
        /\ HashesOf(result.val) = Reachable
        /\ Len(result.val) = Cardinality(Reachable)

\* C2 witness: a commit reached along two paths (parent of the head and of the
\* head's other parent) is listed once
C2_Witness ==
    /\ result.op = "git_log" /\ result.path = NoneOpt /\ result.ok
    /\ Len(commits) = 3
    /\ commits[2].parents = <<1>> /\ commits[3].parents = <<2, 1>>
    /\ Len(result.val) = 3

\* C3 (as claimed): in an initialised repository without commits, history
\* returns the empty sequence and no error.
C3_EmptyRepoEmptyHistory ==
    (result.op = "git_log" /\ repoExists /\ head = NoHead) =>
        (result.ok /\ result.val = <<>>)

\* C4 (as claimed): right after a successful commit_path of f returning h, the
\* history of f is not empty and starts with h.
C4_CommitThenHistory ==
    (result.op = "git_commit_file" /\ result.ok) =>
        LET h == git_log_value(result.path) IN
        h.ok /\ h.val # <<>> /\ h.val[1].hash = result.val

\* C5 (as claimed): in a returned history a descendant always comes before its
\* ancestors, whatever the timestamps.
C5_DescendantFirst ==
    (result.op = "git_log" /\ result.ok) =>
        \A i, j \in DOMAIN result.val :
            i < j => result.val[i].hash.oid \notin AncestorsOf(result.val[j].hash.oid)

\* C6: in a filtered history that is returned, a reachable merge commit M that
\* has the path, with one parent that has it too and another parent that lacks
\* it, is listed, and no commit is listed more than once.
C6_MergeIncludedOnce ==
    (result.op = "git_log" /\ IsSome(result.path) /\ result.ok) =>
        LET P == result.path[1] IN
        /\ \A c \in Oids : Occurrences(result.val, c) <= 1
        /\ \A M \in Reachable :
              ( /\ P \in DOMAIN commits[M].tree
                /\ \E X, Y \in ParentsOf(M) :
                      P \in DOMAIN commits[X].tree /\ P \notin DOMAIN commits[Y].tree )
              => Occurrences(result.val, M) = 1

\* C6 witness: M = 3 merges X = 1 (same entry as M) and Y = 2 (path absent)
C6_Witness ==
    /\ result.op = "git_log" /\ result.path = Some("r1.md") /\ result.ok
    /\ Len(commits) = 3 /\ head = 3
    /\ commits[3].parents = <<1, 2>>
    /\ "r1.md" \in DOMAIN commits[3].tree
    /\ commits[1].tree = commits[3].tree
    /\ "r1.md" \notin DOMAIN commits[2].tree
    /\ Occurrences(result.val, 3) = 1

\* C7 (as claimed): when a parent commit or its tree cannot be loaded, the
\* filtered history still succeeds, and a commit that has the path and such a
\* parent is listed.
C7_BadParentDegrades ==
    (result.op = "git_log" /\ IsSome(result.path)) =>
        \A c \in Reachable :
            ( /\ c \notin lostCommits
              /\ commits[c].tree \notin lostTrees
              /\ result.path[1] \in DOMAIN commits[c].tree
              /\ \E p \in ParentsOf(c) :
                    p \in lostCommits \/ commits[p].tree \in lostTrees )
            => (result.ok /\ c \in HashesOf(result.val))

\* C8: right after a successful commit_path of f returning h, read_blob_at(h, f)
\* gives the content f had when it was committed, and whatever read_blob_at
\* gives for a commit and a path it keeps giving after every later command.
C8_BlobRoundTrip ==
    [][ \A h \in HashArgs, f \in Files :
          /\ (result'.op = "git_commit_file" /\ result'.ok
                /\ result'.val = h /\ result'.path = Some(f))
             => git_checkout_value(h, f)' = Ok(worktree[f])
          /\ git_checkout_value(h, f).ok
             => git_checkout_value(h, f)' = git_checkout_value(h, f) ]_vars

\* C8 witness: an older commit is read back after the file was rewritten and
\* committed again, and gives the older content
C8_Witness ==
    /\ result.op = "git_checkout_file" /\ result.ok
    /\ result.hash.hex /\ head # NoHead /\ result.hash.oid # head
    /\ result.path = Some("r1.md")
    /\ "r1.md" \in DOMAIN commits[head].tree
    /\ "r1.md" \in DOMAIN worktree
    /\ result.val # commits[head].tree["r1.md"]
    /\ result.val # worktree["r1.md"]

\* C9 (as claimed): a commit_all or commit_path that returns an error leaves
\* head, the commits and the staged index as they were.
C9_FailureLeavesNoTrace ==
    [][ (IsCommitOp(result') /\ ~result'.ok) =>
            (head' = head /\ commits' = commits /\ index' = index) ]_vars

\* C10: a successful commit moves head to a commit whose only parent is the
\* previous head (none when there was no head) and returns its hash, leaving
\* the commit objects of the store as they were; the full history is then the
\* new commit followed by the full history from before.  No command removes or
\* reorders commits of a full history.
C10_AppendOnly ==
    [][ \A before \in {git_log_value(NoneOpt)}, after \in {git_log_value(NoneOpt)'} :
        /\ (IsCommitOp(result') /\ result'.ok) =>
              /\ head' \in DOMAIN commits'
              /\ \A c \in Oids : commits'[c] = commits[c]
              /\ commits'[head'].parents = (IF head = NoHead THEN <<>> ELSE <<head>>)
              /\ result'.val = [hex |-> TRUE, oid |-> head']
              /\ after.ok
              /\ Len(after.val) >= 1
              /\ after.val[1].hash = result'.val
              /\ Tail(after.val) = (IF before.ok THEN before.val ELSE <<>>)
        /\ before.ok => (after.ok /\ IsSuffix(before.val, after.val)) ]_vars

\* C10 witness: a commit made on top of an earlier one, in the same second
C10_Witness ==
    /\ IsCommitOp(result) /\ result.ok
    /\ Len(commits) = 2 /\ head = 2
    /\ commits[2].parents = <<1>> /\ commits[2].time = commits[1].time
    /\ git_log_value(NoneOpt) = Ok(<<CommitInfo(2), CommitInfo(1)>>)

====
